---- MODULE Spec2Model ----
(***************************************************************************)
(* The expense rule engine of expense_agent/agent.py: the validator        *)
(* (validate_expense_data), the categorizer (categorize_expense) and the   *)
(* aggregator (generate_expense_summary), called as tools on a session     *)
(* whose state bag they append their history to.                           *)
(*                                                                         *)
(* Python values are tagged records (PyVal).  A Python string is the       *)
(* tuple of its characters, so that lower(), the substring test `in`, the  *)
(* lexicographic sort and the parsers are computed character by character. *)
(* Amounts are binary64 floats held exactly and added with the rounding of *)
(* IEEE 754; confidences are hundredths.                                   *)
(* Timestamps (datetime.now()) are left out of the history entries.        *)
(***************************************************************************)
EXTENDS Integers, Sequences, FiniteSets, TLC

VARIABLES state, pc, call, ret

vars == <<state, pc, call, ret>>

(* ---------------------------------------------------------------- bounds *)
\* longest batch handed to generate_expense_summary
MaxBatch == 2
\* most history entries a session state accumulates
MaxHistory == 1
\* longest batch of records whose amounts are no whole numbers
MaxFractionBatch == 3

(* --------------------------------------------------------- Python values *)
\* t is the type, n the value of an int (the whole part of a float), s the
\* characters of a str, f the fraction of a float
Str(s) == [t |-> "str", n |-> 0, s |-> s, f |-> <<0, 0, 0>>]
\* an int
Num(n) == [t |-> "num", n |-> n, s |-> <<>>, f |-> <<0, 0, 0>>]
\* a float: the whole part and the three limbs of the fraction
Flt(w, h, m, l) == [t |-> "float", n |-> w, s |-> <<>>, f |-> <<h, m, l>>]
None == [t |-> "NoneType", n |-> 0, s |-> <<>>, f |-> <<0, 0, 0>>]
\* a list value such as ["x"]: no .lower(), not hashable, not a number
List == [t |-> "list", n |-> 0, s |-> <<>>, f |-> <<0, 0, 0>>]
\* the key is absent from the dict
Missing == [t |-> "missing", n |-> 0, s |-> <<>>, f |-> <<0, 0, 0>>]

\* dict.get(key, default)
Get(d, key, default) == IF d[key] = Missing THEN default ELSE d[key]

\* truth value of a Python object
Truthy(v) ==
  CASE v.t = "str" -> v.s # <<>>
    [] v.t = "num" -> v.n # 0
    [] v.t = "float" -> v.n # 0 \/ v.f # <<0, 0, 0>>
    [] v.t = "list" -> TRUE
    [] OTHER -> FALSE

Ok(v) == [exc |-> "", val |-> v]
Raise(e, v) == [exc |-> e, val |-> v]

(* --------------------------------------------------------------- strings *)
Upper == <<"A","B","C","D","E","F","G","H","I","J","K","L","M","N","O","P","Q","R","S","T","U","V","W","X","Y","Z">>
Letters == <<"a","b","c","d","e","f","g","h","i","j","k","l","m","n","o","p","q","r","s","t","u","v","w","x","y","z">>
Digits == <<"0","1","2","3","4","5","6","7","8","9">>
\* the characters of the model in code-point order
Chars == <<" ","+","-","/">> \o Digits \o <<":">> \o Upper \o Letters

CharSet == {Chars[i] : i \in 1..Len(Chars)}

\* ord(c), as the position in Chars
OrdMap == [c \in CharSet |-> CHOOSE i \in 1..Len(Chars) : Chars[i] = c]
Ord(c) == OrdMap[c]

LowerMap ==
  [c \in CharSet |->
     IF \E i \in 1..Len(Upper) : Upper[i] = c
     THEN Letters[CHOOSE i \in 1..Len(Upper) : Upper[i] = c]
     ELSE c]
LowerChar(c) == LowerMap[c]

\* str.lower()
lower(s) == [i \in 1..Len(s) |-> LowerChar(s[i])]

\* k in s
Contains(k, s) ==
  \E i \in 0..(Len(s) - Len(k)) : \A j \in 1..Len(k) : s[i + j] = k[j]

\* a < b on strings: code-point lexicographic order
RECURSIVE StrLess(_, _)
StrLess(a, b) ==
  IF b = <<>> THEN FALSE
  ELSE IF a = <<>> THEN TRUE
  ELSE IF a[1] # b[1] THEN Ord(a[1]) < Ord(b[1])
  ELSE StrLess(Tail(a), Tail(b))

\* str.replace('Z', '+00:00')
RECURSIVE replace_Z(_)
replace_Z(s) ==
  IF s = <<>> THEN <<>>
  ELSE (IF s[1] = "Z" THEN <<"+","0","0",":","0","0">> ELSE <<s[1]>>) \o replace_Z(Tail(s))

IsDigit(c) == \E i \in 1..10 : Digits[i] = c
DigitVal(c) == (CHOOSE i \in 1..10 : Digits[i] = c) - 1
AllDigits(s) == s # <<>> /\ \A i \in 1..Len(s) : IsDigit(s[i])

RECURSIVE ParseInt(_)
ParseInt(s) ==
  IF s = <<>> THEN 0 ELSE 10 * ParseInt(SubSeq(s, 1, Len(s) - 1)) + DigitVal(s[Len(s)])

(* ---------------------------------------------------------- Python floats *)
\* A finite non-negative binary64 value held exactly: the whole part w and
\* the fraction f = <<h, m, l>>, three limbs of 20 bits that stand for
\* (h * 2^40 + m * 2^20 + l) / 2^60.  Values below 2^-8 other than zero and
\* values of 2^31 or more are outside the model.
Limb == 1048576

Float(w, h, m, l) == [w |-> w, f |-> <<h, m, l>>]

\* float(n) of an int
FromInt(n) == Float(n, 0, 0, 0)

RECURSIVE Pow2(_)
Pow2(n) == IF n = 0 THEN 1 ELSE 2 * Pow2(n - 1)

\* floor(log2(n)) for n >= 1
RECURSIVE Log2(_)
Log2(n) == IF n < 2 THEN 0 ELSE 1 + Log2(n \div 2)

\* a > b, a >= b and a <= b between floats
FloatGreater(a, b) ==
  \/ a.w > b.w
  \/ a.w = b.w /\ a.f[1] > b.f[1]
  \/ a.w = b.w /\ a.f[1] = b.f[1] /\ a.f[2] > b.f[2]
  \/ a.w = b.w /\ a.f[1] = b.f[1] /\ a.f[2] = b.f[2] /\ a.f[3] > b.f[3]

FloatAtLeast(a, b) == a = b \/ FloatGreater(a, b)

\* amount > n against an int n
Above(a, n) == FloatGreater(a, FromInt(n))

\* the limbs brought back below 2^20, the carries moved up
Carry(w, h, m, l) ==
  Float(w + (h + (m + l \div Limb) \div Limb) \div Limb,
        (h + (m + l \div Limb) \div Limb) % Limb,
        (m + l \div Limb) % Limb,
        l % Limb)

\* the sum of two floats before rounding
ExactSum(a, b) ==
  Carry(a.w + b.w, a.f[1] + b.f[1], a.f[2] + b.f[2], a.f[3] + b.f[3])

\* the number of low bits of the fraction that a 53-bit significand drops
DroppedBits(x) ==
  IF x.w > 0 THEN 8 + Log2(x.w)
  ELSE IF x.f[1] > 0 THEN Log2(x.f[1]) - 12
  ELSE 0

\* round to nearest, ties to even, dropping the d lowest bits (d <= 20)
RoundLow(x, d) ==
  IF (x.f[3] % Pow2(d)) * 2 > Pow2(d)
     \/ (/\ (x.f[3] % Pow2(d)) * 2 = Pow2(d)
         /\ (IF d = 20 THEN x.f[2] ELSE x.f[3] \div Pow2(d)) % 2 = 1)
  THEN Carry(x.w, x.f[1], x.f[2], x.f[3] - (x.f[3] % Pow2(d)) + Pow2(d))
  ELSE Float(x.w, x.f[1], x.f[2], x.f[3] - (x.f[3] % Pow2(d)))

\* the same for 20 < d <= 40: all of the lowest limb goes, and d - 20 bits
\* of the middle one
RoundMid(x, d) ==
  IF \/ (x.f[2] % Pow2(d)) * 2 > Pow2(d)
     \/ (x.f[2] % Pow2(d)) * 2 = Pow2(d) /\ x.f[3] > 0
     \/ (/\ (x.f[2] % Pow2(d)) * 2 = Pow2(d) /\ x.f[3] = 0
         /\ (IF d = 20 THEN x.f[1] ELSE x.f[2] \div Pow2(d)) % 2 = 1)
  THEN Carry(x.w, x.f[1], x.f[2] - (x.f[2] % Pow2(d)) + Pow2(d), 0)
  ELSE Float(x.w, x.f[1], x.f[2] - (x.f[2] % Pow2(d)), 0)

\* the binary64 nearest to the exact value x
Round53(x) ==
  IF DroppedBits(x) <= 0 THEN x
  ELSE IF DroppedBits(x) <= 20 THEN RoundLow(x, DroppedBits(x))
  ELSE RoundMid(x, DroppedBits(x) - 20)

\* a + b on floats
FloatAdd(a, b) == Round53(ExactSum(a, b))

(* ---------------------------------------------------------------- float() *)
\* float(v): a float as it is, an int converted, a string of decimal digits
\* parsed, any other string of the model a ValueError, None or a list a
\* TypeError
float(v) ==
  CASE v.t = "float" -> Ok(Float(v.n, v.f[1], v.f[2], v.f[3]))
    [] v.t = "num" -> Ok(FromInt(v.n))
    [] v.t = "str" -> IF AllDigits(v.s) THEN Ok(FromInt(ParseInt(v.s)))
                      ELSE Raise("ValueError", FromInt(0))
    [] OTHER -> Raise("TypeError", FromInt(0))

(* ---------------------------------------------- datetime.fromisoformat() *)
IsLeap(y) == (y % 4 = 0 /\ y % 100 # 0) \/ y % 400 = 0
DaysInMonth(y, m) ==
  IF m = 2 THEN (IF IsLeap(y) THEN 29 ELSE 28)
  ELSE IF m \in {4, 6, 9, 11} THEN 30 ELSE 31

RECURSIVE DaysBeforeMonth(_, _)
DaysBeforeMonth(y, m) ==
  IF m = 1 THEN 0 ELSE DaysBeforeMonth(y, m - 1) + DaysInMonth(y, m - 1)

\* date.toordinal(): day 1 is 0001-01-01, a Monday
toordinal(y, m, d) ==
  (y - 1) * 365 + ((y - 1) \div 4) - ((y - 1) \div 100) + ((y - 1) \div 400)
  + DaysBeforeMonth(y, m) + d

\* date.weekday(): Monday is 0
weekday(ord) == (ord + 6) % 7

\* datetime.fromisoformat(s) for the calendar-date form YYYY-MM-DD; every
\* other string of the model is one Python rejects with a ValueError
fromisoformat(s) ==
  IF /\ Len(s) = 10
     /\ s[5] = "-" /\ s[8] = "-"
     /\ AllDigits(SubSeq(s, 1, 4)) /\ AllDigits(SubSeq(s, 6, 7))
     /\ AllDigits(SubSeq(s, 9, 10))
  THEN LET y == ParseInt(SubSeq(s, 1, 4))
           m == ParseInt(SubSeq(s, 6, 7))
           d == ParseInt(SubSeq(s, 9, 10))
       IN IF y >= 1 /\ m \in 1..12 /\ d >= 1 /\ d <= DaysInMonth(y, m)
          THEN Ok(toordinal(y, m, d))
          ELSE Raise("ValueError", 0)
  ELSE Raise("ValueError", 0)

\* datetime.fromisoformat(date.replace('Z', '+00:00')) on any value: a value
\* that is no string has no .replace
parse_date(date) ==
  IF date.t # "str" THEN Raise("AttributeError", 0)
  ELSE fromisoformat(replace_Z(date.s))

(* ---------------------------------------------------------- session state *)
\* tool_context.state, a dict: its keys and the values of the three keys the
\* tools write.  A dict is true when it has a key.
StateTruthy(st) == st.keys # {}

\* if key not in state: state[key] = []; state[key].append(entry)
AppendHistory(st, key, entry) ==
  [st EXCEPT !.keys = @ \cup {key}, ![key] = Append(@, entry)]

(* -------------------------------------------------- validate_expense_data *)
daily_limit == 100
receipt_threshold == 25
nightly_limit == 300

\* an f-string message with the amount it prints; err is str(e) of a caught
\* exception, named by its class
Msg(text, amount) == [text |-> text, amount |-> amount, err |-> ""]
ErrMsg(text, e) == [text |-> text, amount |-> FromInt(0), err |-> e]

MealLimitText == "Meal expense exceeds daily policy limit of $100"
LodgingLimitText == "Lodging expense exceeds nightly limit of $300"
MealReceiptDoc == "Receipt required for meals over $25"
UniversalReceiptDoc == "Receipt required for all expenses over $25"
RentalDoc == "Car rental agreement and fuel receipts required"
ItineraryDoc == "Flight itinerary and boarding passes"
Section32 == "Section 3.2 - Meal Allowances"
Section41 == "Section 4.1 - Accommodation Limits"
Section21 == "Section 2.1 - Documentation Requirements"
MealWarning == "High meal expense should include business justification"
RideShareWarning == "Ride-share expenses over $75 may require business justification"
AirfareWarning == "Airfare over $1000 may require manager approval for business class"
WeekendWarning == "Weekend expense flagged for review"

validation_results ==
  [is_valid |-> TRUE, violations |-> <<>>, warnings |-> <<>>,
   required_documents |-> <<>>, policy_references |-> <<>>]

\* any(word in text for word in words)
AnyWordIn(words, text) == \E i \in 1..Len(words) : Contains(words[i], text)

MealViolation(r, amount) ==
  [r EXCEPT !.violations = Append(@, Msg(MealLimitText, amount)),
            !.policy_references = Append(@, Section32),
            !.is_valid = FALSE]

\* faulty variant: the meal limit compared with the lodging limit
ExceedsDailyLimit_wrong_limit(amount) == Above(amount, nightly_limit)

ExceedsDailyLimit(amount) == Above(amount, daily_limit)

NeedsMealReceipt(amount) == Above(amount, receipt_threshold)

\* if amount > daily_limit:
meal_limit(r, amount) ==
  IF ExceedsDailyLimit(amount) THEN MealViolation(r, amount) ELSE r

\* if amount > receipt_threshold:
meal_receipt(r, amount) ==
  IF NeedsMealReceipt(amount)
  THEN [r EXCEPT !.required_documents = Append(@, MealReceiptDoc)]
  ELSE r

\* if amount > 50 and "business" not in description.lower():
meal_justification(r, amount, description) ==
  IF Above(amount, 50)
  THEN IF description.t # "str" THEN Raise("AttributeError", r)
       ELSE IF ~Contains(<<"b","u","s","i","n","e","s","s">>, lower(description.s))
            THEN Ok([r EXCEPT !.warnings = Append(@, MealWarning)])
            ELSE Ok(r)
  ELSE Ok(r)

\* if category == "meals":
meals_rules(r, amount, description) ==
  meal_justification(meal_receipt(meal_limit(r, amount), amount), amount, description)

\* faulty variant: the violation is recorded and is_valid is left True
LodgingViolation_flag_kept(r, amount) ==
  [r EXCEPT !.violations = Append(@, Msg(LodgingLimitText, amount)),
            !.policy_references = Append(@, Section41)]

LodgingViolation(r, amount) ==
  [r EXCEPT !.violations = Append(@, Msg(LodgingLimitText, amount)),
            !.policy_references = Append(@, Section41),
            !.is_valid = FALSE]

\* elif category == "lodging":
lodging_rules(r, amount) ==
  Ok(IF Above(amount, nightly_limit) THEN LodgingViolation(r, amount) ELSE r)

\* if any(word in description.lower() for word in [...]) and amount > 75:
ride_share_warning(r, amount, text) ==
  IF AnyWordIn(<<<<"u","b","e","r">>, <<"l","y","f","t">>, <<"t","a","x","i">>>>, text) /\ Above(amount, 75)
  THEN [r EXCEPT !.warnings = Append(@, RideShareWarning)]
  ELSE r

\* if "rental" in description.lower() and amount > 500:
rental_documents(r, amount, text) ==
  IF Contains(<<"r","e","n","t","a","l">>, text) /\ Above(amount, 500)
  THEN [r EXCEPT !.required_documents = Append(@, RentalDoc)]
  ELSE r

\* the two checks on the lowered description
transportation_checks(r, amount, text) ==
  rental_documents(ride_share_warning(r, amount, text), amount, text)

\* elif category == "transportation":
transportation_rules(r, amount, description) ==
  IF description.t # "str" THEN Raise("AttributeError", r)
  ELSE Ok(transportation_checks(r, amount, lower(description.s)))

\* elif category == "airfare":
airfare_rules(r, amount) ==
  Ok(IF Above(amount, 1000)
     THEN [r EXCEPT !.warnings = Append(@, AirfareWarning),
                    !.required_documents = Append(@, ItineraryDoc)]
     ELSE r)

category_rules(r, category, amount, description) ==
  CASE category = <<"m","e","a","l","s">> -> meals_rules(r, amount, description)
    [] category = <<"l","o","d","g","i","n","g">> -> lodging_rules(r, amount)
    [] category = <<"t","r","a","n","s","p","o","r","t","a","t","i","o","n">> -> transportation_rules(r, amount, description)
    [] category = <<"a","i","r","f","a","r","e">> -> airfare_rules(r, amount)
    [] OTHER -> Ok(r)

\* faulty variant: >= for >
NeedsReceipt_inclusive(amount, has_receipt) ==
  FloatAtLeast(amount, FromInt(25)) /\ ~has_receipt

NeedsReceipt(amount, has_receipt) == Above(amount, 25) /\ ~has_receipt

\* Universal receipt requirement
universal_receipt(r, amount, has_receipt) ==
  IF NeedsReceipt(amount, has_receipt)
  THEN [r EXCEPT !.required_documents = Append(@, UniversalReceiptDoc),
                 !.policy_references = Append(@, Section21)]
  ELSE r

\* faulty variant: a date that does not parse is flagged
weekend_flag_unparsed(r, expense_date) ==
  IF expense_date.exc # "" \/ weekday(expense_date.val) >= 5
  THEN [r EXCEPT !.warnings = Append(@, WeekendWarning)]
  ELSE r

\* if expense_date.weekday() >= 5, inside try/except: the bare except
\* swallows every failure of the parse
weekend_flag(r, expense_date) ==
  IF expense_date.exc # "" THEN r
  ELSE IF weekday(expense_date.val) >= 5
       THEN [r EXCEPT !.warnings = Append(@, WeekendWarning)]
       ELSE r

\* Weekend/holiday expense flagging
weekend_check(r, date) ==
  IF Truthy(date) THEN weekend_flag(r, parse_date(date)) ELSE r

\* the checks that follow the category rules, whose outcome is c
common_rules(c, expense_data, amount) ==
  IF c.exc # "" THEN c
  ELSE Ok(weekend_check(
            universal_receipt(c.val, amount, expense_data.has_receipt),
            Get(expense_data, "date", Str(<<>>))))

\* the rules for float(amount) = a and the category value cat
converted_rules(expense_data, a, cat) ==
  IF a.exc # "" THEN Raise(a.exc, validation_results)
  ELSE IF cat.t # "str" THEN Raise("AttributeError", validation_results)
  ELSE common_rules(
         category_rules(validation_results, lower(cat.s), a.val,
                        Get(expense_data, "description", Str(<<>>))),
         expense_data, a.val)

\* the try block up to the session update
validate_rules(expense_data) ==
  converted_rules(expense_data,
                  float(Get(expense_data, "amount", Num(0))),
                  Get(expense_data, "category", Str(<<>>)))

\* except Exception as e:
validation_error(e) ==
  [is_valid |-> FALSE,
   violations |-> <<ErrMsg("Error validating expense data", e)>>,
   warnings |-> <<>>, required_documents |-> <<>>, policy_references |-> <<>>]

\* the entry appended to state["validation_history"]
validation_entry(expense_data, r) ==
  [expense |-> expense_data, is_valid |-> r.is_valid,
   violations_count |-> Len(r.violations)]

\* tool_context is TRUE when a context is supplied, st is its state
\* faulty variant: the warnings of a result pile up on a session that
\* already holds a validation history
validate_return_shared_lists(b, expense_data, tool_context, st) ==
  IF b.exc # ""
  THEN [result |-> validation_error(b.exc), state |-> st]
  ELSE [result |-> IF tool_context /\ st.validation_history # <<>>
                   THEN [b.val EXCEPT !.warnings = @ \o @]
                   ELSE b.val,
        state |-> IF tool_context /\ StateTruthy(st)
                  THEN AppendHistory(st, "validation_history",
                                     validation_entry(expense_data, b.val))
                  ELSE st]

validate_return(b, expense_data, tool_context, st) ==
  IF b.exc # ""
  THEN [result |-> validation_error(b.exc), state |-> st]
  ELSE [result |-> b.val,
        state |-> IF tool_context /\ StateTruthy(st)
                  THEN AppendHistory(st, "validation_history",
                                     validation_entry(expense_data, b.val))
                  ELSE st]

validate_expense_data(expense_data, tool_context, st) ==
  validate_return(validate_rules(expense_data), expense_data, tool_context, st)

(* ------------------------------------------------------ categorize_expense *)
KW(k, score) == [kw |-> k, score |-> score]

transport_keywords ==
  <<KW(<<"f","l","i","g","h","t">>, 95), KW(<<"a","i","r","l","i","n","e">>, 90), KW(<<"a","i","r","f","a","r","e">>, 95), KW(<<"p","l","a","n","e">>, 80),
    KW(<<"u","b","e","r">>, 90), KW(<<"l","y","f","t">>, 90), KW(<<"t","a","x","i">>, 85), KW(<<"c","a","b">>, 80),
    KW(<<"r","i","d","e","s","h","a","r","e">>, 85), KW(<<"r","e","n","t","a","l">>, 70), KW(<<"h","e","r","t","z">>, 90), KW(<<"a","v","i","s">>, 90),
    KW(<<"e","n","t","e","r","p","r","i","s","e">>, 90), KW(<<"p","a","r","k","i","n","g">>, 80), KW(<<"t","o","l","l">>, 80),
    KW(<<"m","i","l","e","a","g","e">>, 85), KW(<<"g","a","s">>, 60)>>

lodging_keywords ==
  <<KW(<<"h","o","t","e","l">>, 95), KW(<<"m","o","t","e","l">>, 90), KW(<<"a","c","c","o","m","m","o","d","a","t","i","o","n">>, 90),
    KW(<<"l","o","d","g","i","n","g">>, 95), KW(<<"r","e","s","o","r","t">>, 85), KW(<<"i","n","n">>, 80), KW(<<"m","a","r","r","i","o","t","t">>, 95),
    KW(<<"h","i","l","t","o","n">>, 95), KW(<<"h","y","a","t","t">>, 95), KW(<<"a","i","r","b","n","b">>, 80), KW(<<"b","o","o","k","i","n","g">>, 70)>>

meal_keywords ==
  <<KW(<<"r","e","s","t","a","u","r","a","n","t">>, 90), KW(<<"d","i","n","n","e","r">>, 85), KW(<<"l","u","n","c","h">>, 85),
    KW(<<"b","r","e","a","k","f","a","s","t">>, 85), KW(<<"m","e","a","l">>, 90), KW(<<"f","o","o","d">>, 70), KW(<<"c","a","f","e">>, 80),
    KW(<<"s","t","a","r","b","u","c","k","s">>, 80), KW(<<"m","c","d","o","n","a","l","d">>, 80), KW(<<"s","u","b","w","a","y">>, 80),
    KW(<<"c","l","i","e","n","t"," ","d","i","n","n","e","r">>, 95)>>

office_keywords ==
  <<KW(<<"o","f","f","i","c","e">>, 90), KW(<<"s","u","p","p","l","i","e","s">>, 85), KW(<<"s","t","a","t","i","o","n","e","r","y">>, 90),
    KW(<<"p","r","i","n","t","e","r">>, 80), KW(<<"p","a","p","e","r">>, 70), KW(<<"s","t","a","p","l","e","s">>, 90), KW(<<"d","e","p","o","t">>, 80),
    KW(<<"a","m","a","z","o","n">>, 40)>>

Max(a, b) == IF a >= b THEN a ELSE b

\* category_scores is a dict in insertion order: a sequence of items
HasKey(scores, cat) == \E i \in 1..Len(scores) : scores[i].category = cat

\* faulty variant: the weights of the matched keywords are added up
UpdateScore_sum(scores, cat, score) ==
  IF HasKey(scores, cat)
  THEN [i \in 1..Len(scores) |->
          IF scores[i].category = cat
          THEN [scores[i] EXCEPT !.confidence = @ + score]
          ELSE scores[i]]
  ELSE Append(scores, [category |-> cat, confidence |-> score])

\* category_scores[cat] = max(category_scores.get(cat, 0), score)
UpdateScore(scores, cat, score) ==
  IF HasKey(scores, cat)
  THEN [i \in 1..Len(scores) |->
          IF scores[i].category = cat
          THEN [scores[i] EXCEPT !.confidence = Max(@, score)]
          ELSE scores[i]]
  ELSE Append(scores, [category |-> cat, confidence |-> Max(0, score)])

\* if keyword in description_lower or keyword in merchant_lower
KeywordMatches(k, description_lower, merchant_lower) ==
  Contains(k, description_lower) \/ Contains(k, merchant_lower)

\* for keyword, score in keywords.items(): ... from keyword i on
RECURSIVE ScoreTable(_, _, _, _, _, _)
ScoreTable(scores, cat, keywords, i, description_lower, merchant_lower) ==
  IF i > Len(keywords) THEN scores
  ELSE ScoreTable(
         IF KeywordMatches(keywords[i].kw, description_lower, merchant_lower)
         THEN UpdateScore(scores, cat, keywords[i].score)
         ELSE scores,
         cat, keywords, i + 1, description_lower, merchant_lower)

\* the four scoring loops, in the order of the source
category_scores(description_lower, merchant_lower) ==
  ScoreTable(
    ScoreTable(
      ScoreTable(
        ScoreTable(<<>>, "transportation", transport_keywords, 1,
                   description_lower, merchant_lower),
        "lodging", lodging_keywords, 1, description_lower, merchant_lower),
      "meals", meal_keywords, 1, description_lower, merchant_lower),
    "office_supplies", office_keywords, 1, description_lower, merchant_lower)

\* max(items, key=lambda x: x[1]): the first item that attains the maximum
best_category(scores) ==
  scores[CHOOSE i \in 1..Len(scores) :
           /\ \A j \in 1..Len(scores) : scores[j].confidence <= scores[i].confidence
           /\ \A j \in 1..(i - 1) : scores[j].confidence < scores[i].confidence]

\* one item put into a sequence sorted by descending confidence, after the
\* items that compare equal to it (the sort is stable)
RECURSIVE InsertDesc(_, _)
InsertDesc(sorted, item) ==
  IF sorted = <<>> THEN <<item>>
  ELSE IF sorted[1].confidence >= item.confidence
       THEN <<sorted[1]>> \o InsertDesc(Tail(sorted), item)
       ELSE <<item>> \o sorted

\* sorted(items, key=lambda x: x[1], reverse=True)
RECURSIVE SortedDesc(_)
SortedDesc(items) ==
  IF items = <<>> THEN <<>>
  ELSE InsertDesc(SortedDesc(SubSeq(items, 1, Len(items) - 1)), items[Len(items)])

\* seq[1:3]
Slice13(seq) == SubSeq(seq, 2, IF Len(seq) < 3 THEN Len(seq) ELSE 3)

\* faulty variant: the items are sliced in dict order, unsorted
alternative_categories_unsorted(scores) == Slice13(scores)

alternative_categories(scores) == Slice13(SortedDesc(scores))

transport_subcategory(description_lower) ==
  IF AnyWordIn(<<<<"f","l","i","g","h","t">>, <<"a","i","r","l","i","n","e">>, <<"a","i","r","f","a","r","e">>>>, description_lower) THEN "airfare"
  ELSE IF AnyWordIn(<<<<"u","b","e","r">>, <<"l","y","f","t">>, <<"t","a","x","i">>>>, description_lower) THEN "rideshare"
  ELSE IF Contains(<<"r","e","n","t","a","l">>, description_lower) THEN "car_rental"
  ELSE IF AnyWordIn(<<<<"p","a","r","k","i","n","g">>, <<"t","o","l","l">>>>, description_lower) THEN "misc_transport"
  ELSE "general"

\* amount > 75 on an int or a float
IsBusinessMeal(amount) == Above(float(amount).val, 75)

\* faulty variant: the meal-time keywords are checked before the amount
meal_subcategory_keywords_first(description_lower, amount) ==
  IF amount.t \notin {"num", "float"} THEN Raise("TypeError", "general")
  ELSE IF Contains(<<"b","r","e","a","k","f","a","s","t">>, description_lower) THEN Ok("breakfast")
  ELSE IF Contains(<<"l","u","n","c","h">>, description_lower) THEN Ok("lunch")
  ELSE IF Contains(<<"d","i","n","n","e","r">>, description_lower) THEN Ok("dinner")
  ELSE IF IsBusinessMeal(amount) THEN Ok("business_meal")
  ELSE Ok("general")

\* amount > 75 raises a TypeError on a value that is no number
meal_subcategory(description_lower, amount) ==
  IF amount.t \notin {"num", "float"} THEN Raise("TypeError", "general")
  ELSE IF IsBusinessMeal(amount) THEN Ok("business_meal")
  ELSE IF Contains(<<"b","r","e","a","k","f","a","s","t">>, description_lower) THEN Ok("breakfast")
  ELSE IF Contains(<<"l","u","n","c","h">>, description_lower) THEN Ok("lunch")
  ELSE IF Contains(<<"d","i","n","n","e","r">>, description_lower) THEN Ok("dinner")
  ELSE Ok("general")

subcategory_of(category, description_lower, amount) ==
  CASE category = "transportation" -> Ok(transport_subcategory(description_lower))
    [] category = "meals" -> meal_subcategory(description_lower, amount)
    [] OTHER -> Ok("general")

\* Default categorization
default_confidence == 20

\* faulty variant: the default result with confidence 0.0
default_categorization_zero ==
  [category |-> "miscellaneous", subcategory |-> "other", confidence |-> 0,
   error |-> "", alternative_categories |-> <<>>]

default_categorization ==
  [category |-> "miscellaneous", subcategory |-> "other",
   confidence |-> default_confidence, error |-> "",
   alternative_categories |-> <<>>]

\* faulty variant: the error result reuses the default subcategory
categorization_error_other(e) ==
  [category |-> "miscellaneous", subcategory |-> "other", confidence |-> 0,
   error |-> e, alternative_categories |-> <<>>]

\* except Exception as e:
categorization_error(e) ==
  [category |-> "miscellaneous", subcategory |-> "error", confidence |-> 0,
   error |-> e, alternative_categories |-> <<>>]

\* the result built from the best item and the outcome of its subcategory
categorization_result(best, sub, scores) ==
  IF sub.exc # "" THEN Raise(sub.exc, default_categorization)
  ELSE Ok([category |-> best.category, subcategory |-> sub.val,
           confidence |-> best.confidence, error |-> "",
           alternative_categories |-> alternative_categories(scores)])

\* best_category = max(category_scores.items(), key=lambda x: x[1])
best_result(best, scores, description_lower, amount) ==
  categorization_result(best,
                        subcategory_of(best.category, description_lower, amount),
                        scores)

\* if category_scores: ... else the default result
scored_result(scores, description_lower, amount) ==
  IF scores # <<>>
  THEN best_result(best_category(scores), scores, description_lower, amount)
  ELSE Ok(default_categorization)

\* the rules on the lowered texts
lowered_rules(description_lower, merchant_lower, amount) ==
  scored_result(category_scores(description_lower, merchant_lower),
                description_lower, amount)

\* the try block up to the session update
categorize_rules(description, merchant, amount) ==
  IF description.t # "str" \/ merchant.t # "str"
  THEN Raise("AttributeError", default_categorization)
  ELSE lowered_rules(lower(description.s), lower(merchant.s), amount)

categorization_entry(description, merchant, result) ==
  [description |-> description, merchant |-> merchant, result |-> result]

\* merchant and amount absent take their defaults "" and 0
categorize_return(b, description, merchant, tool_context, st) ==
  IF b.exc # ""
  THEN [result |-> categorization_error(b.exc), state |-> st]
  ELSE [result |-> b.val,
        state |-> IF tool_context /\ StateTruthy(st)
                  THEN AppendHistory(st, "categorization_history",
                                     categorization_entry(description, merchant, b.val))
                  ELSE st]

\* the call with merchant and amount given
categorize_call(description, merchant, amount, tool_context, st) ==
  categorize_return(categorize_rules(description, merchant, amount),
                    description, merchant, tool_context, st)

\* merchant and amount absent take their defaults "" and 0
categorize_expense(description, merchant, amount, tool_context, st) ==
  categorize_call(description,
                  IF merchant = Missing THEN Str(<<>>) ELSE merchant,
                  IF amount = Missing THEN Num(0) ELSE amount,
                  tool_context, st)

(* ------------------------------------------------ generate_expense_summary *)
\* a quotient of two floats, kept exact as the pair it is computed from
Ratio(num, den) == [num |-> num, den |-> den]

\* "Expense #{i+1}: {message}"
Tagged(index, msg) == [index |-> index, msg |-> msg]

summary0(expenses) ==
  [total_amount |-> FromInt(0),
   expense_count |-> Len(expenses),
   categories |-> <<>>,
   compliance_status |-> [total_violations |-> 0, violations |-> <<>>,
                          warnings |-> <<>>, ready_for_submission |-> TRUE],
   required_documents |-> <<>>,
   policy_references |-> <<>>,
   date_range |-> <<>>,
   statistics |-> <<>>]

\* summary["categories"] is a dict in insertion order: a sequence of buckets
HasBucket(categories, category) ==
  \E k \in 1..Len(categories) : categories[k].key = category

new_bucket(category) ==
  [key |-> category, count |-> 0, total |-> FromInt(0),
   average |-> Ratio(FromInt(0), 1),
   expenses |-> <<>>]

\* Category tracking
track_category(categories, category, amount, description, date) ==
  LET cs == IF HasBucket(categories, category) THEN categories
            ELSE Append(categories, new_bucket(category))
  IN [k \in 1..Len(cs) |->
        IF cs[k].key = category
        THEN [cs[k] EXCEPT !.count = @ + 1,
                           !.total = FloatAdd(@, amount),
                           !.expenses = Append(@, [amount |-> amount,
                                                   description |-> description,
                                                   date |-> date])]
        ELSE cs[k]]

\* seq.extend(f"Expense #{i+1}: {m}" for m in msgs)
ExtendTagged(seq, i, msgs) ==
  seq \o [k \in 1..Len(msgs) |-> Tagged(i, msgs[k])]

\* the part of the loop body after validate_expense_data(expense) returned
collect_validation(summary, i, validation) ==
  LET cs == summary.compliance_status
      cs1 == IF ~validation.is_valid
             THEN [cs EXCEPT !.total_violations = @ + Len(validation.violations),
                             !.violations = ExtendTagged(@, i, validation.violations),
                             !.ready_for_submission = FALSE]
             ELSE cs
      cs2 == [cs1 EXCEPT !.warnings = ExtendTagged(@, i, validation.warnings)]
  IN [summary EXCEPT !.compliance_status = cs2,
                     !.required_documents = @ \o validation.required_documents,
                     !.policy_references = @ \o validation.policy_references]

\* except Exception as e: of the loop body
record_error(summary, i, e) ==
  [summary EXCEPT
     !.compliance_status.violations =
        Append(@, Tagged(i, ErrMsg("Error processing expense", e))),
     !.compliance_status.ready_for_submission = FALSE]

\* category not in summary["categories"] hashes the category
Unhashable(v) == v.t = "list"

\* one pass of the loop body for expenses[i] (i counts from 1, as i+1 does);
\* acc holds summary and dates, and keeps what was updated before a raise
\* summary["total_amount"] += amount; if date: dates.append(date)
add_amount(acc, amount, date) ==
  [acc EXCEPT !.summary.total_amount = FloatAdd(@, amount),
              !.dates = IF Truthy(date) THEN Append(@, date) ELSE @]

\* the loop body from the category tracking on
process_category(acc, i, expense, amount, category) ==
  IF Unhashable(category)
  THEN [acc EXCEPT !.summary = record_error(@, i, "TypeError")]
  ELSE [acc EXCEPT !.summary =
          collect_validation(
            [@ EXCEPT !.categories =
               track_category(@, category, amount,
                              Get(expense, "description", Str(<<>>)),
                              Get(expense, "date", Str(<<>>)))],
            i, validate_expense_data(expense, FALSE, <<>>).result)]

\* the loop body for float(amount) = a
process_amount(acc, i, expense, a) ==
  IF a.exc # ""
  THEN [acc EXCEPT !.summary = record_error(@, i, a.exc)]
  ELSE process_category(
         add_amount(acc, a.val, Get(expense, "date", Str(<<>>))),
         i, expense, a.val,
         Get(expense, "category", Str(<<"m","i","s","c","e","l","l","a","n","e","o","u","s">>)))

process_expense(acc, i, expense) ==
  process_amount(acc, i, expense, float(Get(expense, "amount", Num(0))))

\* for i, expense in enumerate(expenses): from expense i on
RECURSIVE process_all(_, _, _)
process_all(acc, i, expenses) ==
  IF i > Len(expenses) THEN acc
  ELSE process_all(process_expense(acc, i, expenses[i]), i + 1, expenses)

\* Calculate category averages
category_averages(categories) ==
  [k \in 1..Len(categories) |->
     IF categories[k].count > 0
     THEN [categories[k] EXCEPT !.average = Ratio(categories[k].total, categories[k].count)]
     ELSE categories[k]]

\* list(set(seq)): the order is not fixed, so the set stands for the list
Dedup(seq) == {seq[k] : k \in 1..Len(seq)}

\* a < b between two dates of the same type
DateLess(a, b) == IF a.t = "str" THEN StrLess(a.s, b.s) ELSE a.n < b.n

RECURSIVE InsertAsc(_, _)
InsertAsc(sorted, item) ==
  IF sorted = <<>> THEN <<item>>
  ELSE IF DateLess(item, sorted[1]) THEN <<item>> \o sorted
  ELSE <<sorted[1]>> \o InsertAsc(Tail(sorted), item)

RECURSIVE SortedAsc(_)
SortedAsc(items) ==
  IF items = <<>> THEN <<>>
  ELSE InsertAsc(SortedAsc(SubSeq(items, 1, Len(items) - 1)), items[Len(items)])

\* dates.sort(): a str and a number do not compare
sort_dates(dates) ==
  IF \E k, l \in 1..Len(dates) : dates[k].t # dates[l].t
  THEN Raise("TypeError", dates)
  ELSE Ok(SortedAsc(dates))

\* (fromisoformat(dates[-1]) - fromisoformat(dates[0])).days + 1 if len(dates) > 1 else 1
days_between(last, first) ==
  IF last.exc # "" THEN Raise(last.exc, 0)
  ELSE IF first.exc # "" THEN Raise(first.exc, 0)
  ELSE Ok(last.val - first.val + 1)

duration_days(dates) ==
  IF Len(dates) > 1
  THEN days_between(parse_date(dates[Len(dates)]), parse_date(dates[1]))
  ELSE Ok(1)

\* Date range analysis
\* summary["date_range"] = {...} for the sorted dates and their duration d
range_entry(dates, d) ==
  IF d.exc # "" THEN Raise(d.exc, <<>>)
  ELSE Ok(<<[start_date |-> dates[1],
             end_date |-> dates[Len(dates)],
             duration_days |-> d.val]>>)

\* the date range once dates.sort() returned s
sorted_range(s) ==
  IF s.exc # "" THEN Raise(s.exc, <<>>)
  ELSE range_entry(s.val, duration_days(s.val))

date_range(dates) ==
  IF dates = <<>> THEN Ok(<<>>) ELSE sorted_range(sort_dates(dates))

\* max(categories.items(), key=count)[0]: the first bucket with the top count
most_common_category(categories) ==
  IF categories = <<>> THEN Str(<<"n","o","n","e">>)
  ELSE categories[CHOOSE k \in 1..Len(categories) :
         /\ \A l \in 1..Len(categories) : categories[l].count <= categories[k].count
         /\ \A l \in 1..(k - 1) : categories[l].count < categories[k].count].key

\* float(exp.get("amount", 0)) for exp in expenses
float_amounts(expenses) ==
  [k \in 1..Len(expenses) |-> float(Get(expenses[k], "amount", Num(0)))]

\* Generate statistics
\* the statistics dict for the amounts fs: the first float() that fails
\* raises, in the order of the list
amount_statistics(summary, fs) ==
  IF \E k \in 1..Len(fs) : fs[k].exc # ""
  THEN Raise(fs[CHOOSE k \in 1..Len(fs) :
                  fs[k].exc # "" /\ \A l \in 1..(k - 1) : fs[l].exc = ""].exc,
             <<>>)
  ELSE Ok(<<[average_expense |-> Ratio(summary.total_amount, summary.expense_count),
             largest_expense |->
                CHOOSE x \in {fs[k].val : k \in 1..Len(fs)} :
                  \A k \in 1..Len(fs) : FloatAtLeast(x, fs[k].val),
             smallest_expense |->
                CHOOSE x \in {fs[k].val : k \in 1..Len(fs)} :
                  \A k \in 1..Len(fs) : FloatAtLeast(fs[k].val, x),
             most_common_category |-> most_common_category(summary.categories)]>>)

statistics(summary, expenses) ==
  IF summary.expense_count > 0
  THEN amount_statistics(summary, float_amounts(expenses))
  ELSE Ok(<<>>)

\* the outer except Exception as e:
summary_error(e) ==
  [total_amount |-> FromInt(0),
   expense_count |-> 0,
   categories |-> <<>>,
   compliance_status |->
     [total_violations |-> 1,
      violations |-> <<Tagged(0, ErrMsg("Error generating summary", e))>>,
      warnings |-> <<>>, ready_for_submission |-> FALSE],
   required_documents |-> {},
   policy_references |-> {},
   date_range |-> <<>>,
   statistics |-> <<>>]

\* the outer try block up to the session update
\* summary["statistics"] = {...}, or the exception of the step
with_statistics(summary, st) ==
  IF st.exc # "" THEN Raise(st.exc, summary)
  ELSE Ok([summary EXCEPT !.statistics = st.val])

\* Generate statistics, on the summary that has its date range
statistics_step(summary, expenses) ==
  with_statistics(summary, statistics(summary, expenses))

\* summary["date_range"] = {...}, or the exception of the step
with_date_range(summary, dr, expenses) ==
  IF dr.exc # "" THEN Raise(dr.exc, summary)
  ELSE statistics_step([summary EXCEPT !.date_range = dr.val], expenses)

\* averages and deduplication, before the date range
averaged(summary) ==
  [summary EXCEPT !.categories = category_averages(@),
                  !.required_documents = Dedup(@),
                  !.policy_references = Dedup(@)]

\* the steps after the loop, on what the loop left in acc
after_loop(acc, expenses) ==
  with_date_range(averaged(acc.summary), date_range(acc.dates), expenses)

\* the outer try block up to the session update
summary_rules(expenses) ==
  after_loop(process_all([summary |-> summary0(expenses), dates |-> <<>>], 1, expenses),
             expenses)

\* the value stored under state["expense_summary"]
summary_entry(summary) ==
  [total_amount |-> summary.total_amount,
   expense_count |-> summary.expense_count,
   ready_for_submission |-> summary.compliance_status.ready_for_submission]

summary_return(b, tool_context, st) ==
  IF b.exc # ""
  THEN [result |-> summary_error(b.exc), state |-> st]
  ELSE [result |-> b.val,
        state |-> IF tool_context /\ StateTruthy(st)
                  THEN [st EXCEPT !.keys = @ \cup {"expense_summary"},
                                  !.expense_summary = <<summary_entry(b.val)>>]
                  ELSE st]

generate_expense_summary(expenses, tool_context, st) ==
  summary_return(summary_rules(expenses), tool_context, st)

(* ------------------------------------------------------------------ inputs *)
Record(amount, category, description, date, has_receipt) ==
  [amount |-> amount, category |-> category, description |-> description,
   date |-> date, has_receipt |-> has_receipt]

\* the floats 0.1, 0.2, 0.3 and 100.5
Float01 == Flt(0, 104857, 629145, 629152)
Float02 == Flt(0, 209715, 209715, 209728)
Float03 == Flt(0, 314572, 838860, 838848)
Float100_5 == Flt(100, 524288, 0, 0)

Amounts ==
  {Num(n) : n \in {25, 26, 51, 76, 100, 101, 301, 501, 1001}}
  \cup {Float100_5, Str(<<"1","5","0">>), Str(<<"a","b","c">>), None, Missing}

Categories ==
  {Str(<<"m","e","a","l","s">>), Str(<<"M","e","a","l","s">>), Str(<<"l","o","d","g","i","n","g">>), Str(<<"t","r","a","n","s","p","o","r","t","a","t","i","o","n">>),
   Str(<<"a","i","r","f","a","r","e">>), None, Missing}

Descriptions ==
  {Missing, Str(<<"B","u","s","i","n","e","s","s"," ","l","u","n","c","h">>), Str(<<"U","b","e","r"," ","t","o"," ","c","a","r"," ","r","e","n","t","a","l">>), None}

\* 2024-01-05 is a Friday, 2024-01-06 a Saturday
Dates ==
  {Missing, Str(<<"2","0","2","4","-","0","1","-","0","5">>), Str(<<"2","0","2","4","-","0","1","-","0","6">>), Str(<<"f","o","o">>), Num(20240106)}

ExpenseRecords ==
  {Record(a, c, d, dt, h) : a \in Amounts, c \in Categories, d \in Descriptions,
                            dt \in Dates, h \in BOOLEAN}

\* the records validated on a session context
SessionRecords ==
  {Record(Num(101), Str(<<"m","e","a","l","s">>), Missing, Str(<<"2","0","2","4","-","0","1","-","0","6">>), FALSE)}

ValidateInputs ==
  (ExpenseRecords \X {FALSE}) \cup (SessionRecords \X {TRUE})

CategorizeDescriptions ==
  {Str(<<>>), Str(<<"D","i","n","n","e","r"," ","w","i","t","h"," ","c","l","i","e","n","t">>), Str(<<"h","o","t","e","l"," ","f","l","i","g","h","t">>),
   Str(<<"L","u","n","c","h"," ","a","t"," ","c","a","f","e">>), Str(<<"b","r","e","a","k","f","a","s","t">>), Str(<<"u","b","e","r">>),
   Str(<<"o","f","f","i","c","e"," ","s","u","p","p","l","i","e","s"," ","a","n","d"," ","p","a","p","e","r">>), Str(<<"c","a","r"," ","r","e","n","t","a","l"," ","p","a","r","k","i","n","g">>),
   Str(<<"a","m","a","z","o","n"," ","o","r","d","e","r">>), Str(<<"t","e","a","m"," ","g","i","f","t">>),
   Str(<<"t","a","x","i"," ","t","o"," ","h","o","t","e","l"," ","o","f","f","i","c","e"," ","l","u","n","c","h">>), None}

CategorizeMerchants == {Missing, Str(<<"H","i","l","t","o","n">>), Str(<<"S","t","a","r","b","u","c","k","s">>), None}

CategorizeAmounts == {Missing, Num(75), Num(76), Num(85), Str(<<"8","5">>), None}

CategorizeInputs ==
  (CategorizeDescriptions \X CategorizeMerchants \X CategorizeAmounts \X {FALSE})
  \cup {<<Str(<<"D","i","n","n","e","r"," ","w","i","t","h"," ","c","l","i","e","n","t">>), Missing, Num(85), TRUE>>}

\* the records of the batches handed to generate_expense_summary
SummaryRecords ==
  {Record(Num(50), Str(<<"m","e","a","l","s">>), Missing, Missing, TRUE),
   Record(Num(400), Str(<<"l","o","d","g","i","n","g">>), Missing, Missing, TRUE),
   Record(Str(<<"a","b","c">>), Str(<<"m","e","a","l","s">>), Missing, Missing, TRUE),
   Record(Num(10), List, Missing, Str(<<"2","0","2","4","-","0","1","-","0","5">>), TRUE),
   Record(Num(50), Str(<<"m","e","a","l","s">>), Missing, Str(<<"2","0","2","4","-","0","1","-","0","5">>), TRUE),
   Record(Num(20), Str(<<"l","o","d","g","i","n","g">>), Missing, Str(<<"2","0","2","4","-","0","1","-","0","8">>), TRUE),
   Record(Num(10), Str(<<"m","e","a","l","s">>), Missing, Str(<<"f","o","o">>), TRUE),
   Record(Num(30), Str(<<"M","e","a","l","s">>), Missing, Missing, FALSE),
   Record(Num(101), Str(<<"m","e","a","l","s">>), Missing, Str(<<"2","0","2","3","-","1","2","-","3","1">>), FALSE),
   Record(Str(<<"1","5","0">>), Missing, Missing, Missing, TRUE),
   Record(Num(10), Str(<<"t","r","a","n","s","p","o","r","t","a","t","i","o","n">>), Str(<<"t","a","x","i">>), Str(<<"2","0","2","4","-","0","1","-","0","6">>), TRUE),
   Record(Num(10), None, Missing, Str(<<"b","a","r">>), TRUE)}

\* records whose amounts are no whole numbers of dollars
FractionRecords ==
  {Record(Float01, Str(<<"m","e","a","l","s">>), Missing, Missing, TRUE),
   Record(Float02, Str(<<"m","e","a","l","s">>), Missing, Missing, TRUE),
   Record(Float03, Str(<<"m","e","a","l","s">>), Missing, Missing, TRUE),
   Record(Float03, Str(<<"l","o","d","g","i","n","g">>), Missing, Missing, TRUE)}

Batches ==
  UNION {[1..n -> SummaryRecords] : n \in 0..MaxBatch}
  \cup UNION {[1..n -> FractionRecords] : n \in 1..MaxFractionBatch}

SessionBatch ==
  <<Record(Num(50), Str(<<"m","e","a","l","s">>), Missing, Missing, TRUE),
    Record(Num(400), Str(<<"l","o","d","g","i","n","g">>), Missing, Missing, TRUE)>>

SummaryInputs == (Batches \X {FALSE}) \cup {<<SessionBatch, TRUE>>}

(* ------------------------------------------------------------ the machine *)
\* state: the session's state bag; pc: "idle" between tool calls, "done" when
\* a tool has returned; call: the tool called and its arguments; ret: what it
\* returned
EmptyState ==
  [keys |-> {}, validation_history |-> <<>>, categorization_history |-> <<>>,
   expense_summary |-> <<>>]

HistoryLen(st) ==
  Len(st.validation_history) + Len(st.categorization_history) + Len(st.expense_summary)

NoCall == [op |-> "none"]
NoRet == [none |-> TRUE]

Init ==
  /\ state \in {EmptyState, [EmptyState EXCEPT !.keys = {"user_id"}]}
  /\ pc = "idle"
  /\ call = NoCall
  /\ ret = NoRet

Validate(expense_data, tool_context) ==
  /\ pc = "idle"
  /\ tool_context => HistoryLen(state) < MaxHistory
  /\ LET out == validate_expense_data(expense_data, tool_context, state)
     IN /\ ret' = out.result
        /\ state' = out.state
  /\ call' = [op |-> "validate_expense_data", expense_data |-> expense_data,
              tool_context |-> tool_context]
  /\ pc' = "done"

Categorize(description, merchant, amount, tool_context) ==
  /\ pc = "idle"
  /\ tool_context => HistoryLen(state) < MaxHistory
  /\ LET out == categorize_expense(description, merchant, amount, tool_context, state)
     IN /\ ret' = out.result
        /\ state' = out.state
  /\ call' = [op |-> "categorize_expense", description |-> description,
              merchant |-> merchant, amount |-> amount,
              tool_context |-> tool_context]
  /\ pc' = "done"

Summarize(expenses, tool_context) ==
  /\ pc = "idle"
  /\ tool_context => HistoryLen(state) < MaxHistory
  /\ LET out == generate_expense_summary(expenses, tool_context, state)
     IN /\ ret' = out.result
        /\ state' = out.state
  /\ call' = [op |-> "generate_expense_summary", expenses |-> expenses,
              tool_context |-> tool_context]
  /\ pc' = "done"

\* the result is handed back to the agent runtime
Return ==
  /\ pc = "done"
  /\ pc' = "idle"
  /\ call' = NoCall
  /\ ret' = NoRet
  /\ UNCHANGED state

Next ==
  \/ \E in \in ValidateInputs : Validate(in[1], in[2])
  \/ \E in \in CategorizeInputs : Categorize(in[1], in[2], in[3], in[4])
  \/ \E in \in SummaryInputs : Summarize(in[1], in[2])
  \/ Return

Spec == Init /\ [][Next]_vars

(* ------------------------------------------------------------ properties *)
Returned(op) == pc = "done" /\ call.op = op

Elems(seq) == {seq[k] : k \in 1..Len(seq)}

\* the amount of the record is a number (or a numeric string) above x
AmountAbove(expense_data, x) ==
  LET a == float(Get(expense_data, "amount", Num(0)))
  IN a.exc = "" /\ Above(a.val, x)

AmountAtMost(expense_data, x) ==
  LET a == float(Get(expense_data, "amount", Num(0)))
  IN a.exc = "" /\ ~Above(a.val, x)

\* the category is a string that lower-cases to cat
CategoryIs(expense_data, cat) ==
  expense_data.category.t = "str" /\ lower(expense_data.category.s) = cat

\* C1: for every record, well-formed or malformed, validate_expense_data
\* returns is_valid = false if and only if its violations list is non-empty.
C1_ValidIffNoViolations ==
  Returned("validate_expense_data") =>
    ((ret.is_valid = FALSE) <=> (ret.violations # <<>>))

\* a lodging record over the nightly limit was validated and came back invalid
C1_Witness ==
  /\ Returned("validate_expense_data")
  /\ CategoryIs(call.expense_data, <<"l","o","d","g","i","n","g">>)
  /\ AmountAbove(call.expense_data, nightly_limit)
  /\ ~ret.is_valid
  /\ Len(ret.violations) = 1

HasMealViolation(r) ==
  \E k \in 1..Len(r.violations) : r.violations[k].text = MealLimitText

\* C2 as stated: for all records whose category is "meals" (case-insensitively)
\* and whose amount is above 100, the result is invalid and carries the meal
\* limit violation with the policy reference "Section 3.2".
C2_MealsOverLimit_AllRecords ==
  (/\ Returned("validate_expense_data")
   /\ CategoryIs(call.expense_data, <<"m","e","a","l","s">>)
   /\ AmountAbove(call.expense_data, daily_limit))
  => (/\ ret.is_valid = FALSE
      /\ HasMealViolation(ret)
      /\ Section32 \in Elems(ret.policy_references))

\* C2 amended: for all records whose category is "meals" (case-insensitively),
\* whose amount is above 100 and whose description is a string or absent, the
\* result is invalid and carries the meal limit violation, with the amount, and
\* the policy reference "Section 3.2 - Meal Allowances"; whatever the
\* description, the result is invalid.
C2_MealsOverLimit ==
  (/\ Returned("validate_expense_data")
   /\ CategoryIs(call.expense_data, <<"m","e","a","l","s">>)
   /\ AmountAbove(call.expense_data, daily_limit))
  => (/\ ret.is_valid = FALSE
      /\ Get(call.expense_data, "description", Str(<<>>)).t = "str"
           => (/\ ret.violations[1] =
                    Msg(MealLimitText,
                        float(Get(call.expense_data, "amount", Num(0))).val)
               /\ Len(ret.violations) = 1
               /\ ret.policy_references[1] = Section32))

\* a "Meals" record whose amount is the string "150" came back with the
\* Section 3.2 reference
C2_Witness ==
  /\ Returned("validate_expense_data")
  /\ call.expense_data.category = Str(<<"M","e","a","l","s">>)
  /\ call.expense_data.amount = Str(<<"1","5","0">>)
  /\ call.expense_data.description = Str(<<"B","u","s","i","n","e","s","s"," ","l","u","n","c","h">>)
  /\ ret.is_valid = FALSE
  /\ Section32 \in Elems(ret.policy_references)

\* C3: for all records with amount <= 25 and has_receipt = false, whatever the
\* category, description and date, no "Receipt required" document (the meal
\* one or the universal one) and no "Section 2.1" reference is added.
C3_NoReceiptAtOrBelow25 ==
  (/\ Returned("validate_expense_data")
   /\ AmountAtMost(call.expense_data, 25)
   /\ call.expense_data.has_receipt = FALSE)
  => (/\ MealReceiptDoc \notin Elems(ret.required_documents)
      /\ UniversalReceiptDoc \notin Elems(ret.required_documents)
      /\ Section21 \notin Elems(ret.policy_references))

\* a meals record of exactly 25 without a receipt was validated and is valid
C3_Witness ==
  /\ Returned("validate_expense_data")
  /\ call.expense_data.amount = Num(25)
  /\ call.expense_data.category = Str(<<"m","e","a","l","s">>)
  /\ call.expense_data.has_receipt = FALSE
  /\ ret.is_valid

\* the date is present and does not parse
MalformedDate(expense_data) ==
  /\ Truthy(Get(expense_data, "date", Str(<<>>)))
  /\ parse_date(expense_data.date).exc # ""

\* C4: validate_expense_data does not raise on malformed numeric or date
\* fields: a non-numeric amount gives an invalid result with one diagnostic
\* violation, and a record with an unparseable date gives the result of the
\* same record without a date.
C4_MalformedAmountAndDate ==
  Returned("validate_expense_data") =>
    /\ float(Get(call.expense_data, "amount", Num(0))).exc # ""
         => (/\ ret.is_valid = FALSE
             /\ Len(ret.violations) = 1
             /\ ret.violations[1].text = "Error validating expense data"
             /\ ret.violations[1].err \in {"ValueError", "TypeError"})
    /\ MalformedDate(call.expense_data)
         => ret = validate_expense_data([call.expense_data EXCEPT !.date = Missing],
                                        FALSE, state).result

\* a meals record of 51 with the date "foo" was validated: it carries the meal
\* warning and no weekend warning
C4_Witness ==
  /\ Returned("validate_expense_data")
  /\ call.expense_data.date = Str(<<"f","o","o">>)
  /\ call.expense_data.amount = Num(51)
  /\ call.expense_data.category = Str(<<"m","e","a","l","s">>)
  /\ call.expense_data.description = Missing
  /\ ret.warnings = <<MealWarning>>

(* categorize_expense *)
\* description is a string and merchant is a string or absent
StringArgs(c) ==
  c.description.t = "str" /\ (c.merchant = Missing \/ c.merchant.t = "str")

DescText(c) == lower(c.description.s)
MerchText(c) == IF c.merchant = Missing THEN <<>> ELSE lower(c.merchant.s)

KeywordOccurs(k, c) == Contains(k, DescText(c)) \/ Contains(k, MerchText(c))

Tables ==
  <<[name |-> "transportation", table |-> transport_keywords],
    [name |-> "lodging", table |-> lodging_keywords],
    [name |-> "meals", table |-> meal_keywords],
    [name |-> "office_supplies", table |-> office_keywords]>>

NoKeywordOccurs(c) ==
  \A n \in 1..Len(Tables) : \A i \in 1..Len(Tables[n].table) :
    ~KeywordOccurs(Tables[n].table[i].kw, c)

\* C5 as stated: confidence = 0 with the fallback category "miscellaneous" if
\* and only if no keyword of the four tables occurs in description or
\* merchant; then the subcategory is "other" and there are no alternatives.
C5_FallbackConfidenceZero ==
  (Returned("categorize_expense") /\ StringArgs(call)) =>
    /\ (ret.confidence = 0 /\ ret.category = "miscellaneous") <=> NoKeywordOccurs(call)
    /\ NoKeywordOccurs(call)
         => (ret.subcategory = "other" /\ ret.alternative_categories = <<>>)

\* C5 amended: for a string description and merchant, the fallback result
\* (category "miscellaneous", subcategory "other") is returned if and only if
\* no keyword of the four tables occurs in description or merchant; its
\* confidence is 0.2, not 0, and it has no alternatives.  Confidence 0 comes
\* only with the error result (subcategory "error").
C5_FallbackConfidence ==
  (Returned("categorize_expense") /\ StringArgs(call)) =>
    /\ (ret.category = "miscellaneous" /\ ret.subcategory = "other")
         <=> NoKeywordOccurs(call)
    /\ NoKeywordOccurs(call)
         => (ret.confidence = 20 /\ ret.alternative_categories = <<>>)
    /\ ret.confidence = 0 => ret.subcategory = "error"

\* categorize("", "", 0) returned the fallback result
C5_Witness ==
  /\ Returned("categorize_expense")
  /\ call.description = Str(<<>>)
  /\ call.merchant = Missing
  /\ call.amount = Missing
  /\ ret.category = "miscellaneous"
  /\ ret.subcategory = "other"

SetMax(S) == CHOOSE x \in S : \A y \in S : y <= x

\* the weights of the keywords of table n that occur
MatchedWeights(n, c) ==
  {Tables[n].table[i].score :
     i \in {j \in 1..Len(Tables[n].table) : KeywordOccurs(Tables[n].table[j].kw, c)}}

Scored(c) == {n \in 1..Len(Tables) : MatchedWeights(n, c) # {}}

\* the scored categories in table order, each with its maximum weight
RECURSIVE ExpectedScores(_, _)
ExpectedScores(n, c) ==
  IF n = 0 THEN <<>>
  ELSE IF n \in Scored(c)
       THEN Append(ExpectedScores(n - 1, c),
                   [category |-> Tables[n].name,
                    confidence |-> SetMax(MatchedWeights(n, c))])
       ELSE ExpectedScores(n - 1, c)

\* C6: when a keyword matches, the score of each category is the maximum of
\* the weights of its keywords that occur, the returned confidence is the
\* highest score of the four categories, and the returned category is the
\* first one in table order that attains it.
C6_MaximumWins ==
  (/\ Returned("categorize_expense")
   /\ StringArgs(call)
   /\ ~NoKeywordOccurs(call)
   /\ ret.error = "")
  => LET top == SetMax({SetMax(MatchedWeights(n, call)) : n \in Scored(call)})
         first == CHOOSE n \in Scored(call) :
                    /\ SetMax(MatchedWeights(n, call)) = top
                    /\ \A m \in Scored(call) :
                         SetMax(MatchedWeights(m, call)) = top => n <= m
     IN /\ category_scores(DescText(call), MerchText(call))
             = ExpectedScores(Len(Tables), call)
        /\ ret.confidence = top
        /\ ret.category = Tables[first].name

\* "hotel flight": transportation and lodging both score 0.95, and the first
\* of the two in table order was returned
C6_Witness ==
  /\ Returned("categorize_expense")
  /\ call.description = Str(<<"h","o","t","e","l"," ","f","l","i","g","h","t">>)
  /\ call.merchant = Missing
  /\ ret.category = "transportation"
  /\ ret.confidence = 95
  /\ ret.alternative_categories = <<[category |-> "lodging", confidence |-> 95]>>

\* C7: whenever the category "meals" is selected and amount > 75, the
\* subcategory is "business_meal" whatever meal-time keyword the description
\* holds; categorize("Dinner with client", "", 85) gives "meals",
\* "business_meal" and a confidence of at least 0.85.
C7_BusinessMeal ==
  Returned("categorize_expense") =>
    /\ (/\ ret.category = "meals"
        /\ call.amount.t \in {"num", "float"}
        /\ IsBusinessMeal(call.amount))
         => ret.subcategory = "business_meal"
    /\ (/\ call.description = Str(<<"D","i","n","n","e","r"," ","w","i","t","h"," ","c","l","i","e","n","t">>)
        /\ call.merchant \in {Missing, Str(<<>>)}
        /\ call.amount = Num(85))
         => (/\ ret.category = "meals"
             /\ ret.subcategory = "business_meal"
             /\ ret.confidence >= 85)

\* categorize("Dinner with client", "", 85) returned "business_meal"
C7_Witness ==
  /\ Returned("categorize_expense")
  /\ call.description = Str(<<"D","i","n","n","e","r"," ","w","i","t","h"," ","c","l","i","e","n","t">>)
  /\ call.merchant = Missing
  /\ call.amount = Num(85)
  /\ ret.subcategory = "business_meal"

\* the amount is given and is no number
NonNumeric(amount) == amount # Missing /\ amount.t # "num"

EmptyText(v) == v = Missing \/ v = Str(<<>>)

\* C8 as stated: for malformed input (missing or empty strings, a description
\* or merchant that is no string, a non-numeric amount) the result is the
\* fallback: category "miscellaneous", subcategory "other", no alternatives.
C8_DegradesToFallback ==
  (/\ Returned("categorize_expense")
   /\ \/ ~StringArgs(call)
      \/ NonNumeric(call.amount)
      \/ (EmptyText(call.description) /\ EmptyText(call.merchant)))
  => (/\ ret.category = "miscellaneous"
      /\ ret.subcategory = "other"
      /\ ret.alternative_categories = <<>>)

ErrorResult(e) ==
  [category |-> "miscellaneous", subcategory |-> "error", confidence |-> 0,
   error |-> e, alternative_categories |-> <<>>]

\* C8 amended: categorize_expense does not raise.  A description or merchant
\* that is no string, or a non-numeric amount when the best-scoring category
\* is meals, gives the error result: category "miscellaneous", subcategory
\* "error", confidence 0.0, no alternatives.  A non-numeric amount is ignored
\* when the best-scoring category is not meals.  Empty or missing strings with
\* a numeric amount give "miscellaneous", "other", 0.2 and no alternatives.
C8_DegradesToErrorResult ==
  Returned("categorize_expense") =>
    /\ ~StringArgs(call) => ret = ErrorResult("AttributeError")
    /\ (StringArgs(call) /\ NonNumeric(call.amount))
         => LET base == categorize_expense(call.description, call.merchant,
                                           Num(0), FALSE, state).result
            IN IF base.category = "meals"
               THEN ret = ErrorResult("TypeError")
               ELSE ret = base
    /\ (/\ call.description = Str(<<>>)
        /\ EmptyText(call.merchant)
        /\ ~NonNumeric(call.amount))
         => ret = [category |-> "miscellaneous", subcategory |-> "other",
                   confidence |-> 20, error |-> "",
                   alternative_categories |-> <<>>]

\* a description that is None came back as the error result
C8_Witness ==
  /\ Returned("categorize_expense")
  /\ call.description = None
  /\ ret.subcategory = "error"
  /\ ret.confidence = 0

(* generate_expense_summary *)
\* the loop body raises on this record: its amount is no number, or its
\* category cannot be hashed
PerRecordRaises(expense) ==
  \/ float(Get(expense, "amount", Num(0))).exc # ""
  \/ Unhashable(Get(expense, "category", Str(<<"m","i","s","c","e","l","l","a","n","e","o","u","s">>)))

\* the positions of the records the loop body processes to its end
Processed(expenses) == {k \in 1..Len(expenses) : ~PerRecordRaises(expenses[k])}

AmountOf(expense) == float(Get(expense, "amount", Num(0))).val
CategoryOf(expense) == Get(expense, "category", Str(<<"m","i","s","c","e","l","l","a","n","e","o","u","s">>))

\* the amounts of the records at the positions K up to n, added in order
RECURSIVE SumOver(_, _, _)
SumOver(K, n, expenses) ==
  IF n = 0 THEN FromInt(0)
  ELSE IF n \in K THEN FloatAdd(SumOver(K, n - 1, expenses), AmountOf(expenses[n]))
  ELSE SumOver(K, n - 1, expenses)

\* C9: when a record of the batch raises in the loop body, the summary holds
\* a violation tagged with that record's 1-based position and is not ready
\* for submission, and the other records are still processed: expense_count
\* is the length of the batch, total_amount is at least the sum of the
\* processed records, and every processed record's category has a bucket that
\* counts the processed records of that category.
C9_PartialFailureIsolation ==
  Returned("generate_expense_summary") =>
    \A i \in 1..Len(call.expenses) :
      PerRecordRaises(call.expenses[i]) =>
        /\ \E v \in Elems(ret.compliance_status.violations) :
             v.index = i /\ v.msg.text = "Error processing expense"
        /\ ret.compliance_status.ready_for_submission = FALSE
        /\ ret.expense_count = Len(call.expenses)
        /\ FloatAtLeast(ret.total_amount,
                        SumOver(Processed(call.expenses), Len(call.expenses),
                                call.expenses))
        /\ \A j \in Processed(call.expenses) :
             \E b \in Elems(ret.categories) :
               /\ b.key = CategoryOf(call.expenses[j])
               /\ b.count = Cardinality({k \in Processed(call.expenses) :
                                CategoryOf(call.expenses[k]) = b.key})

\* C10: ready_for_submission is false if and only if the validation of some
\* record returned is_valid = false or some record raised in the loop body.
C10_ReadyIffAllValid ==
  Returned("generate_expense_summary") =>
    (ret.compliance_status.ready_for_submission = FALSE
     <=> \E i \in 1..Len(call.expenses) :
           \/ PerRecordRaises(call.expenses[i])
           \/ ~validate_expense_data(call.expenses[i], FALSE, state).result.is_valid)

\* the rearrangements of a batch of n records
Rearrangements(n) ==
  {p \in [1..n -> 1..n] : \A i, j \in 1..n : p[i] = p[j] => i = j}

Permuted(expenses, p) == [k \in 1..Len(expenses) |-> expenses[p[k]]]

\* the count and the total of every category of a summary
CategoryTotals(summary) ==
  {[key |-> b.key, count |-> b.count, total |-> b.total] :
     b \in Elems(summary.categories)}

\* C11: for every batch and every permutation of it, the summary has the
\* same total_amount, the same count and total for every category and the
\* same ready_for_submission.
C11_OrderInsensitive ==
  Returned("generate_expense_summary") =>
    \A p \in Rearrangements(Len(call.expenses)) :
      LET other == generate_expense_summary(Permuted(call.expenses, p),
                                            FALSE, state).result
      IN /\ other.total_amount = ret.total_amount
         /\ CategoryTotals(other) = CategoryTotals(ret)
         /\ other.compliance_status.ready_for_submission
              = ret.compliance_status.ready_for_submission

(* validate_expense_data, called again *)
\* C12: a second call of validate_expense_data on the record just validated
\* returns what the first call returned, with or without a tool context, on
\* the session state the first call left (its history appended) as on an
\* empty one.
C12_SecondCallAgrees ==
  Returned("validate_expense_data") =>
    \A tool_context \in BOOLEAN :
      /\ validate_expense_data(call.expense_data, tool_context, state).result = ret
      /\ validate_expense_data(call.expense_data, tool_context, EmptyState).result = ret

\* a record was validated on a session, the state holds its history entry,
\* and the result carries warnings
C12_Witness ==
  /\ Returned("validate_expense_data")
  /\ call.tool_context
  /\ Len(state.validation_history) = 1
  /\ state.validation_history[1].expense = call.expense_data
  /\ ret.warnings # <<>>

(* categorize_expense: the alternatives *)
\* the score of the category named cat among the expected scores
ScoreOf(cat, c) ==
  LET scores == ExpectedScores(Len(Tables), c)
  IN scores[CHOOSE i \in 1..Len(scores) : scores[i].category = cat].confidence

ScoredNames(c) == {Tables[n].name : n \in Scored(c)}

AlternativeNames(r) ==
  {r.alternative_categories[i].category : i \in 1..Len(r.alternative_categories)}

\* C13: alternative_categories holds at most 2 entries, the 2nd and 3rd
\* highest-scoring categories in descending order of confidence: each is a
\* scored category other than the returned one, with its score; none scores
\* above the returned confidence; every scored category left out scores no
\* more than any alternative; and there are as many as there are other scored
\* categories, up to 2.  The fallback and error results have none.
C13_Alternatives ==
  Returned("categorize_expense") =>
    LET alts == ret.alternative_categories
    IN /\ Len(alts) <= 2
       /\ (StringArgs(call) /\ ~NoKeywordOccurs(call) /\ ret.error = "")
            => /\ Len(alts) = (IF Cardinality(Scored(call)) > 2 THEN 2
                               ELSE Cardinality(Scored(call)) - 1)
               /\ Cardinality(AlternativeNames(ret)) = Len(alts)
               /\ \A i \in 1..Len(alts) :
                    /\ alts[i].category \in ScoredNames(call) \ {ret.category}
                    /\ alts[i].confidence = ScoreOf(alts[i].category, call)
                    /\ alts[i].confidence <= ret.confidence
                    /\ \A j \in 1..(i - 1) : alts[j].confidence >= alts[i].confidence
                    /\ \A cat \in ScoredNames(call)
                                    \ (AlternativeNames(ret) \cup {ret.category}) :
                         ScoreOf(cat, call) <= alts[i].confidence
       /\ (~StringArgs(call) \/ NoKeywordOccurs(call) \/ ret.error # "")
            => alts = <<>>

\* "taxi to hotel office lunch" scores in all four tables: lodging is
\* returned, office_supplies and transportation are the alternatives
C13_Witness ==
  /\ Returned("categorize_expense")
  /\ call.description = Str(<<"t","a","x","i"," ","t","o"," ","h","o","t","e","l"," ","o","f","f","i","c","e"," ","l","u","n","c","h">>)
  /\ call.merchant = Missing
  /\ ret.category = "lodging"
  /\ ret.alternative_categories =
       <<[category |-> "office_supplies", confidence |-> 90],
         [category |-> "transportation", confidence |-> 85]>>

(* generate_expense_summary: totals *)
\* the positions of the records of the category named by key
PositionsOf(key, expenses) ==
  {k \in 1..Len(expenses) : CategoryOf(expenses[k]) = key}

\* C14: for every batch in which no record raises in the loop body,
\* total_amount is the sum of the amounts, expense_count the number of
\* records, categories has exactly one bucket per distinct category of the
\* batch, each bucket's count and total are the number and the sum of the
\* amounts of the records of its category, and its average is total / count.
C14_TotalsAndBuckets ==
  (/\ Returned("generate_expense_summary")
   /\ \A k \in 1..Len(call.expenses) : ~PerRecordRaises(call.expenses[k]))
  => /\ ret.total_amount
          = SumOver(1..Len(call.expenses), Len(call.expenses), call.expenses)
     /\ ret.expense_count = Len(call.expenses)
     /\ {b.key : b \in Elems(ret.categories)}
          = {CategoryOf(call.expenses[k]) : k \in 1..Len(call.expenses)}
     /\ \A i, j \in 1..Len(ret.categories) :
          ret.categories[i].key = ret.categories[j].key => i = j
     /\ \A b \in Elems(ret.categories) :
          /\ b.count = Cardinality(PositionsOf(b.key, call.expenses))
          /\ b.total = SumOver(PositionsOf(b.key, call.expenses),
                               Len(call.expenses), call.expenses)
          /\ b.average = Ratio(b.total, b.count)

(* generate_expense_summary: the date range *)
\* the dates the loop collects: those that are true
DatesOf(expenses) ==
  {expenses[k].date : k \in {j \in 1..Len(expenses) :
                               Truthy(Get(expenses[j], "date", Str(<<>>)))}}

\* the day number of a date that parses
DayOf(date) == parse_date(date).val

Parses(date) == parse_date(date).exc = ""

\* C15: with no dated record date_range is empty; with at least one,
\* start_date and end_date are dates of the batch, no date of the batch is
\* earlier than start_date or later than end_date, and duration_days is
\* (end_date - start_date) in days + 1, which is 1 when one record carries a
\* date; so duration_days >= 1.
C15_DateRange ==
  Returned("generate_expense_summary") =>
    IF DatesOf(call.expenses) = {}
    THEN ret.date_range = <<>>
    ELSE /\ Len(ret.date_range) = 1
         /\ LET r == ret.date_range[1]
            IN /\ r.start_date \in DatesOf(call.expenses)
               /\ r.end_date \in DatesOf(call.expenses)
               /\ \A d \in DatesOf(call.expenses) :
                    (Parses(d) /\ Parses(r.start_date) /\ Parses(r.end_date))
                      => (DayOf(r.start_date) <= DayOf(d) /\ DayOf(d) <= DayOf(r.end_date))
               /\ (Parses(r.start_date) /\ Parses(r.end_date))
                    => r.duration_days = DayOf(r.end_date) - DayOf(r.start_date) + 1
               /\ Cardinality({k \in 1..Len(call.expenses) :
                                 Truthy(Get(call.expenses[k], "date", Str(<<>>)))}) = 1
                    => r.duration_days = 1
               /\ r.duration_days >= 1

(* generate_expense_summary: the violation counter *)
\* C16: in every summary returned, compliance_status.total_violations is the
\* number of entries of compliance_status.violations, also when a record
\* raised in the loop body.
C16_ViolationCount ==
  Returned("generate_expense_summary") =>
    ret.compliance_status.total_violations = Len(ret.compliance_status.violations)

====
